---- MODULE Spec2Model ----
(***************************************************************************)
(* Model of the two scripts of the repository.                             *)
(*                                                                         *)
(*   chart_script.py : create_hierarchical_layout(nodes) followed by the   *)
(*                     module-level rendering steps (edge loop, category   *)
(*                     loop, update_layout, write_image).                  *)
(*   script.py       : the module-level print loop over systems_analysis.  *)
(*                                                                         *)
(* The two scripts do not interact; each has its own specification (Spec   *)
(* for the chart script, SpecReport for the report script).                *)
(*                                                                         *)
(* Python floats are IEEE-754 doubles.  A double d with |d| < 64 that is a *)
(* multiple of 2^-53 is represented exactly by the integer V = d * 2^53,   *)
(* held as the pair <<hi, lo>> with V = hi * Limb + lo and 0 <= lo < Limb. *)
(* Every arithmetic result is rounded to 53 significant bits, ties to      *)
(* even, as the hardware does.                                             *)
(***************************************************************************)
EXTENDS Integers, Sequences, FiniteSets, TLC

VARIABLES
    nodes,           \* chart_script: the node list handed to the layout
    pc,              \* chart_script: position of the script
    idx,             \* chart_script: index of the running for loop
    positions,       \* create_hierarchical_layout's local dict
    node_positions,  \* module-level result of the call (line 114)
    traces,          \* fig's traces, in the order add_trace was called
    layout,          \* fig's layout after update_layout / update_*axes
    image,           \* the file written by fig.write_image
    fault,           \* the unhandled exception that ended the script
    systems_analysis,\* script.py: the mapping, as a sequence of entries
    rpc,             \* script.py: position of the script
    entry,           \* script.py: index of the entry of the outer loop
    sidx,            \* script.py: index of the strength of the inner loop
    out              \* script.py: the lines printed so far

chartVars == <<nodes, pc, idx, positions, node_positions, traces, layout, image, fault>>
reportVars == <<systems_analysis, rpc, entry, sidx, out>>
vars == <<nodes, pc, idx, positions, node_positions, traces, layout, image, fault,
          systems_analysis, rpc, entry, sidx, out>>

(***************************************************************************)
(* Bounds of the generated inputs.                                         *)
(***************************************************************************)
MaxNodes == 6
MaxMalformedNodes == 4
MaxLevel == 4
MaxEntries == 2
MaxStrengths == 2

(***************************************************************************)
(* IEEE-754 double arithmetic on the values the layout computes.           *)
(***************************************************************************)
Limb == 2^28

FZero == <<0, 0>>

FNeg(a) == IF a[2] = 0 THEN <<-a[1], 0>> ELSE <<-a[1] - 1, Limb - a[2]>>

\* Number of low bits of V that do not fit in a 53-bit significand.
DropBits(hi) ==
    IF hi < 2^25 THEN 0
    ELSE IF hi < 2^26 THEN 1
    ELSE IF hi < 2^27 THEN 2
    ELSE IF hi < 2^28 THEN 3
    ELSE IF hi < 2^29 THEN 4
    ELSE IF hi < 2^30 THEN 5
    ELSE 6

\* Round a non-negative value to 53 significant bits, ties to even.
RoundMag(hi, lo) ==
    LET q == 2^DropBits(hi)
        r == lo % q
        up == (2 * r > q) \/ (2 * r = q /\ (lo \div q) % 2 = 1)
        lo2 == IF up THEN lo - r + q ELSE lo - r
    IN  IF lo2 = Limb THEN <<hi + 1, 0>> ELSE <<hi, lo2>>

FRound(a) ==
    IF a[1] < 0
    THEN LET m == FNeg(a) IN FNeg(RoundMag(m[1], m[2]))
    ELSE RoundMag(a[1], a[2])

\* a + b
FAdd(a, b) ==
    LET s == a[2] + b[2]
    IN  FRound(<<a[1] + b[1] + (s \div Limb), s % Limb>>)

\* a - b
FSub(a, b) == FAdd(a, FNeg(b))

\* k * a for a Python int k
FMulInt(k, a) ==
    LET m == IF a[1] < 0 THEN FNeg(a) ELSE a
        kk == IF k < 0 THEN -k ELSE k
        p == kk * m[2]
        r == RoundMag(kk * m[1] + (p \div Limb), p % Limb)
    IN  IF (k < 0) # (a[1] < 0) THEN FNeg(r) ELSE r

\* a / 2: exact for a double of magnitude >= 1 (lo is even), and for 0
FHalf(a) ==
    LET m == IF a[1] < 0 THEN FNeg(a) ELSE a
        h == IF m[1] % 2 = 0
             THEN <<m[1] \div 2, m[2] \div 2>>
             ELSE <<(m[1] - 1) \div 2, (m[2] + Limb) \div 2>>
    IN  IF a[1] < 0 THEN FNeg(h) ELSE h

FLess(a, b) == a[1] < b[1] \/ (a[1] = b[1] /\ a[2] < b[2])

(***************************************************************************)
(* The literals of create_hierarchical_layout, as doubles.                 *)
(***************************************************************************)
level1_spacing == <<150994944, 0>>               \* 4.5
\* Faulty variant of level2_sibling_spacing: the level-1 spacing used for level 2.
level2_sibling_spacing_wide == <<150994944, 0>>
level2_sibling_spacing == <<60397977, 161061274>> \* 1.8 = 0x3FFCCCCCCCCCCCCD
level3_sibling_spacing == <<50331648, 0>>        \* 1.5
level1_y == FNeg(<<117440512, 0>>)               \* -3.5
level2_y_step == <<117440512, 0>>                \* 3.5
\* Faulty variant of level3_y_step: the step added instead of subtracted.
level3_y_step_up == FNeg(<<100663296, 0>>)
level3_y_step == <<100663296, 0>>                \* 3.0

(***************************************************************************)
(* chart_script.py: the data.                                              *)
(***************************************************************************)
SampleNodes == <<
    [id |-> "project", label |-> "project/", level |-> 0, category |-> "root"],
    [id |-> "claude", label |-> ".claude/", level |-> 1, category |-> "config", parent |-> "project"],
    [id |-> "workflows", label |-> "workflows/", level |-> 1, category |-> "process", parent |-> "project"],
    [id |-> "commands", label |-> "commands/", level |-> 1, category |-> "actions", parent |-> "project"],
    [id |-> "patterns", label |-> "patterns/", level |-> 1, category |-> "templates", parent |-> "project"],
    [id |-> "memory", label |-> "memory/", level |-> 1, category |-> "context", parent |-> "project"],
    [id |-> "shared", label |-> "shared/", level |-> 1, category |-> "utilities", parent |-> "project"],
    [id |-> "specialists", label |-> "specialists/", level |-> 2, category |-> "config", parent |-> "claude"],
    [id |-> "cognitive", label |-> "cognitive/", level |-> 3, category |-> "config", parent |-> "specialists"],
    [id |-> "technical", label |-> "technical/", level |-> 3, category |-> "config", parent |-> "specialists"],
    [id |-> "domain", label |-> "domain/", level |-> 3, category |-> "config", parent |-> "specialists"],
    [id |-> "orchestration_spec", label |-> "orchestration/", level |-> 3, category |-> "config", parent |-> "specialists"],
    [id |-> "development", label |-> "development/", level |-> 2, category |-> "process", parent |-> "workflows"],
    [id |-> "analysis", label |-> "analysis/", level |-> 2, category |-> "process", parent |-> "workflows"],
    [id |-> "operations", label |-> "operations/", level |-> 2, category |-> "process", parent |-> "workflows"],
    [id |-> "core", label |-> "core/", level |-> 2, category |-> "actions", parent |-> "commands"],
    [id |-> "specialized", label |-> "specialized/", level |-> 2, category |-> "actions", parent |-> "commands"],
    [id |-> "orchestration_cmd", label |-> "orchestration/", level |-> 2, category |-> "actions", parent |-> "commands"],
    [id |-> "architectural", label |-> "architectural/", level |-> 2, category |-> "templates", parent |-> "patterns"],
    [id |-> "development_pat", label |-> "development/", level |-> 2, category |-> "templates", parent |-> "patterns"],
    [id |-> "operational", label |-> "operational/", level |-> 2, category |-> "templates", parent |-> "patterns"],
    [id |-> "context", label |-> "context/", level |-> 2, category |-> "context", parent |-> "memory"],
    [id |-> "sessions", label |-> "sessions/", level |-> 2, category |-> "context", parent |-> "memory"],
    [id |-> "knowledge", label |-> "knowledge/", level |-> 2, category |-> "context", parent |-> "memory"],
    [id |-> "mcp-integration", label |-> "mcp-integration/", level |-> 2, category |-> "utilities", parent |-> "shared"],
    [id |-> "templates", label |-> "templates/", level |-> 2, category |-> "utilities", parent |-> "shared"],
    [id |-> "utilities", label |-> "utilities/", level |-> 2, category |-> "utilities", parent |-> "shared"]
>>

\* Faulty variant of ColorKeys: the last entry of the table left out.
ColorKeysWithoutUtilities == <<"root", "config", "process", "actions", "templates", "context">>

\* The keys of the colors dict, in insertion order (the order of "for category in colors").
ColorKeys == <<"root", "config", "process", "actions", "templates", "context", "utilities">>

colors ==
    [c \in {ColorKeys[k] : k \in 1..Len(ColorKeys)} |->
        CASE c = "root" -> "#13343B"
          [] c = "config" -> "#4472C4"
          [] c = "process" -> "#70AD47"
          [] c = "actions" -> "#FF7F50"
          [] c = "templates" -> "#9966CC"
          [] c = "context" -> "#DC143C"
          [] c = "utilities" -> "#5D878F"]

\* str.title() on the keys of colors.
Title(c) ==
    CASE c = "root" -> "Root"
      [] c = "config" -> "Config"
      [] c = "process" -> "Process"
      [] c = "actions" -> "Actions"
      [] c = "templates" -> "Templates"
      [] c = "context" -> "Context"
      [] c = "utilities" -> "Utilities"

RootMarkerSize == 40
MainMarkerSize == 28
SubMarkerSize == 22
ImageWidth == 1600
ImageHeight == 1000

HasParent(n) == "parent" \in DOMAIN n

IdsOf(ns) == {ns[k].id : k \in 1..Len(ns)}

(***************************************************************************)
(* Node lists handed to the script: the sample, generated trees, and       *)
(* generated trees with one node replaced by a malformed record.           *)
(***************************************************************************)
GenIds == <<"n1", "n2", "n3", "n4", "n5", "n6", "n7", "n8">>
GenLabels == <<"n1/", "n2/", "n3/", "n4/", "n5/", "n6/", "n7/", "n8/">>
GhostId == "ghost"
UnknownCategory == "misc"
GenCategories == {"utilities", "config"}

\* p[i] is the index of node i's parent; parents precede their children.
ParentMaps(n) == {p \in [2..n -> 1..n] : \A i \in 2..n : p[i] < i}

RECURSIVE Depth(_, _)
Depth(p, i) == IF i = 1 THEN 0 ELSE 1 + Depth(p, p[i])

TreeNodes(n, p, cat) ==
    [i \in 1..n |->
        IF i = 1
        THEN [id |-> GenIds[1], label |-> GenLabels[1], level |-> 0, category |-> "root"]
        ELSE [id |-> GenIds[i], label |-> GenLabels[i], level |-> Depth(p, i),
              category |-> cat[Depth(p, i)], parent |-> GenIds[p[i]]]]

Trees(maxn, cats) ==
    UNION {{TreeNodes(n, p, cat) :
                p \in {q \in ParentMaps(n) : \A i \in 1..n : Depth(q, i) <= 3},
                cat \in cats} : n \in 1..maxn}

\* Every record that can stand in for node j of a generated tree of n nodes:
\* another level, another (or a missing, or no) parent, an unknown category,
\* or a second parentless level-0 node.
Replacements(node, n) ==
    LET base == [id |-> node.id, label |-> node.label, level |-> node.level,
                 category |-> node.category]
        withParent(r, q) == [id |-> r.id, label |-> r.label, level |-> r.level,
                             category |-> r.category, parent |-> q]
        parentsOf == {GenIds[k] : k \in 1..n} \cup {GhostId}
    IN  {[node EXCEPT !.level = l] : l \in (0..MaxLevel) \ {node.level}}
        \cup {withParent(base, q) : q \in parentsOf}
        \cup {base}
        \cup {[node EXCEPT !.category = UnknownCategory]}
        \cup {[base EXCEPT !.level = 0]}

MalformedInputs ==
    UNION {{[t EXCEPT ![j] = r] : r \in Replacements(t[j], Len(t)) \ {t[j]}} :
            <<t, j>> \in {<<u, k>> \in Trees(MaxMalformedNodes, {[d \in 1..3 |-> "config"]})
                                       \X (1..MaxMalformedNodes) : k <= Len(u)}}

WellFormedInputs == Trees(MaxNodes, [1..3 -> GenCategories])

ChartInputs == {SampleNodes} \cup WellFormedInputs \cup MalformedInputs

(***************************************************************************)
(* What the spec calls a well-formed node list.                            *)
(***************************************************************************)
NodeById(ns, id) == ns[CHOOSE k \in 1..Len(ns) : ns[k].id = id]

UniqueIds(ns) == \A a, b \in 1..Len(ns) : ns[a].id = ns[b].id => a = b

ParentsResolve(ns) ==
    \A k \in 1..Len(ns) :
        IF ns[k].level = 0 THEN TRUE
        ELSE HasParent(ns[k]) /\ ns[k].parent \in IdsOf(ns)

WellFormedTree(ns) ==
    /\ UniqueIds(ns)
    /\ Cardinality({k \in 1..Len(ns) : ns[k].level = 0}) = 1
    /\ \A k \in 1..Len(ns) :
          /\ ns[k].level \in 0..3
          /\ IF ns[k].level = 0
             THEN ~HasParent(ns[k])
             ELSE /\ HasParent(ns[k])
                  /\ ns[k].parent \in IdsOf(ns)
                  /\ NodeById(ns, ns[k].parent).level + 1 = ns[k].level

CategoriesKnown(ns) == \A k \in 1..Len(ns) : ns[k].category \in DOMAIN colors

(***************************************************************************)
(* chart_script.py: create_hierarchical_layout.                            *)
(***************************************************************************)
\* Faulty variant of NodesAtLevel: ">=" for "==" in the list comprehension.
NodesAtOrBelowLevel(ns, l) == SelectSeq(ns, LAMBDA n : n.level >= l)

\* [n for n in nodes if n['level'] == l]
NodesAtLevel(ns, l) == SelectSeq(ns, LAMBDA n : n.level = l)

\* list.index: the first position holding an equal element, 0-based.
IndexOf(seq, x) == (CHOOSE k \in 1..Len(seq) : seq[k] = x /\ \A j \in 1..(k - 1) : seq[j] # x) - 1

\* [n for n in level_nodes if n.get('parent') == parent_id]
Siblings(levelNodes, parentId) ==
    SelectSeq(levelNodes, LAMBDA n : HasParent(n) /\ n.parent = parentId)

\* Faulty variant of SpreadOffset: start = -n * spacing / 2.
SpreadOffsetOffByOne(n, i, spacing) ==
    FAdd(FHalf(FMulInt(-n, spacing)), FMulInt(i, spacing))

\* start + i * spacing with start = -(n - 1) * spacing / 2
SpreadOffset(n, i, spacing) ==
    FAdd(FHalf(FMulInt(-(n - 1), spacing)), FMulInt(i, spacing))

\* x_offset of the node at sibling_index i among n siblings
SiblingOffset(n, i, spacing) ==
    IF n = 1 THEN FZero ELSE SpreadOffset(n, i, spacing)

Raise(kind) ==
    /\ fault' = [kind |-> kind, at |-> pc]
    /\ pc' = "fault"

\* root_node = [n for n in nodes if n['level'] == 0][0]; positions[root] = (0, 0)
PlaceRoot ==
    /\ pc = "root"
    /\ LET roots == NodesAtLevel(nodes, 0)
       IN  IF Len(roots) = 0
           THEN /\ Raise("IndexError")
                /\ UNCHANGED <<idx, positions>>
           ELSE /\ positions' = (roots[1].id :> <<FZero, FZero>>) @@ positions
                /\ pc' = "level1"
                /\ idx' = 1
                /\ UNCHANGED fault
    /\ UNCHANGED <<nodes, node_positions, traces, layout, image>>
    /\ UNCHANGED reportVars

\* for i, node in enumerate(level1_nodes)
PlaceLevel1 ==
    /\ pc = "level1"
    /\ LET level1_nodes == NodesAtLevel(nodes, 1)
       IN  IF idx > Len(level1_nodes)
           THEN /\ pc' = "level2"
                /\ idx' = 1
                /\ UNCHANGED positions
           ELSE LET node == level1_nodes[idx]
                    x == SpreadOffset(Len(level1_nodes), idx - 1, level1_spacing)
                IN  /\ positions' = (node.id :> <<x, level1_y>>) @@ positions
                    /\ idx' = idx + 1
                    /\ UNCHANGED pc
    /\ UNCHANGED <<nodes, node_positions, traces, layout, image, fault>>
    /\ UNCHANGED reportVars

\* The body shared by the level-2 and the level-3 loop.
PlaceUnderParent(level, spacing, ystep, nextpc) ==
    LET levelNodes == NodesAtLevel(nodes, level)
    IN  IF idx > Len(levelNodes)
        THEN /\ pc' = nextpc
             /\ idx' = 1
             /\ UNCHANGED <<positions, fault>>
        ELSE LET node == levelNodes[idx]
             IN  IF ~HasParent(node) \/ node.parent \notin DOMAIN positions
                 THEN /\ Raise("KeyError")
                      /\ UNCHANGED <<idx, positions>>
                 ELSE LET parent_pos == positions[node.parent]
                          siblings == Siblings(levelNodes, node.parent)
                          x_offset == SiblingOffset(Len(siblings), IndexOf(siblings, node), spacing)
                          x == FAdd(parent_pos[1], x_offset)
                          y == FSub(parent_pos[2], ystep)
                      IN  /\ positions' = (node.id :> <<x, y>>) @@ positions
                          /\ idx' = idx + 1
                          /\ UNCHANGED <<pc, fault>>

PlaceLevel2 ==
    /\ pc = "level2"
    /\ PlaceUnderParent(2, level2_sibling_spacing, level2_y_step, "level3")
    /\ UNCHANGED <<nodes, node_positions, traces, layout, image>>
    /\ UNCHANGED reportVars

PlaceLevel3 ==
    /\ pc = "level3"
    /\ PlaceUnderParent(3, level3_sibling_spacing, level3_y_step, "return")
    /\ UNCHANGED <<nodes, node_positions, traces, layout, image>>
    /\ UNCHANGED reportVars

\* return positions; node_positions = create_hierarchical_layout(nodes); fig = go.Figure()
ReturnLayout ==
    /\ pc = "return"
    /\ node_positions' = positions
    /\ pc' = "edges"
    /\ idx' = 1
    /\ UNCHANGED <<nodes, positions, traces, layout, image, fault>>
    /\ UNCHANGED reportVars

(***************************************************************************)
(* chart_script.py: the rendering steps.                                   *)
(***************************************************************************)
LineTrace(parent_pos, child_pos) ==
    [mode |-> "lines",
     x |-> <<parent_pos[1], child_pos[1]>>,
     y |-> <<parent_pos[2], child_pos[2]>>]

MarkerSize(node) ==
    IF node.level = 0 THEN RootMarkerSize
    ELSE IF node.level = 1 THEN MainMarkerSize
    ELSE SubMarkerSize

MarkerTrace(category, category_nodes, pos) ==
    [mode |-> "markers+text",
     x |-> [k \in 1..Len(category_nodes) |-> pos[category_nodes[k].id][1]],
     y |-> [k \in 1..Len(category_nodes) |-> pos[category_nodes[k].id][2]],
     text |-> [k \in 1..Len(category_nodes) |-> category_nodes[k].label],
     size |-> [k \in 1..Len(category_nodes) |-> MarkerSize(category_nodes[k])],
     color |-> colors[category],
     name |-> Title(category)]

CategoryNodes(ns, category) == SelectSeq(ns, LAMBDA n : n.category = category)

\* for node in nodes: if 'parent' in node: ... fig.add_trace(go.Scatter(mode='lines'))
AddEdge ==
    /\ pc = "edges"
    /\ IF idx > Len(nodes)
       THEN /\ pc' = "markers"
            /\ idx' = 1
            /\ UNCHANGED <<traces, fault>>
       ELSE LET node == nodes[idx]
            IN  IF ~HasParent(node)
                THEN /\ idx' = idx + 1
                     /\ UNCHANGED <<pc, traces, fault>>
                ELSE IF node.id \notin DOMAIN node_positions
                        \/ node.parent \notin DOMAIN node_positions
                THEN /\ Raise("KeyError")
                     /\ UNCHANGED <<idx, traces>>
                ELSE /\ traces' = Append(traces,
                            LineTrace(node_positions[node.parent], node_positions[node.id]))
                     /\ idx' = idx + 1
                     /\ UNCHANGED <<pc, fault>>
    /\ UNCHANGED <<nodes, positions, node_positions, layout, image>>
    /\ UNCHANGED reportVars

\* for category in colors: ... if category_nodes: fig.add_trace(go.Scatter(mode='markers+text'))
AddCategory ==
    /\ pc = "markers"
    /\ IF idx > Len(ColorKeys)
       THEN /\ pc' = "update"
            /\ idx' = 1
            /\ UNCHANGED <<traces, fault>>
       ELSE LET category == ColorKeys[idx]
                category_nodes == CategoryNodes(nodes, category)
            IN  IF Len(category_nodes) = 0
                THEN /\ idx' = idx + 1
                     /\ UNCHANGED <<pc, traces, fault>>
                ELSE IF \E k \in 1..Len(category_nodes) :
                            category_nodes[k].id \notin DOMAIN node_positions
                THEN /\ Raise("KeyError")
                     /\ UNCHANGED <<idx, traces>>
                ELSE /\ traces' = Append(traces,
                            MarkerTrace(category, category_nodes, node_positions))
                     /\ idx' = idx + 1
                     /\ UNCHANGED <<pc, fault>>
    /\ UNCHANGED <<nodes, positions, node_positions, layout, image>>
    /\ UNCHANGED reportVars

\* fig.update_layout(...); fig.update_xaxes(visible=False); fig.update_yaxes(visible=False)
UpdateLayout ==
    /\ pc = "update"
    /\ layout' = [title |-> "Claude Code & MCP Structure", showlegend |-> TRUE,
                  xrange |-> <<-15, 15>>, yrange |-> <<-12, 2>>,
                  xvisible |-> FALSE, yvisible |-> FALSE]
    /\ pc' = "write"
    /\ UNCHANGED <<nodes, idx, positions, node_positions, traces, image, fault>>
    /\ UNCHANGED reportVars

\* fig.write_image("claude_mcp_structure.png", width=1600, height=1000)
WriteImage ==
    /\ pc = "write"
    /\ image' = [path |-> "claude_mcp_structure.png", width |-> ImageWidth,
                 height |-> ImageHeight, traces |-> traces]
    /\ pc' = "done"
    /\ UNCHANGED <<nodes, idx, positions, node_positions, traces, layout, fault>>
    /\ UNCHANGED reportVars

NoPositions == [k \in {} |-> <<FZero, FZero>>]
NoFault == [kind |-> "none", at |-> "none"]
NoImage == [path |-> "", width |-> 0, height |-> 0, traces |-> <<>>]
NoLayout == [title |-> "", showlegend |-> FALSE, xrange |-> <<>>, yrange |-> <<>>,
             xvisible |-> TRUE, yvisible |-> TRUE]

ReportIdle ==
    /\ systems_analysis = <<>>
    /\ rpc = "idle"
    /\ entry = 0
    /\ sidx = 0
    /\ out = <<>>

Init ==
    /\ nodes \in ChartInputs
    /\ pc = "root"
    /\ idx = 0
    /\ positions = NoPositions
    /\ node_positions = NoPositions
    /\ traces = <<>>
    /\ layout = NoLayout
    /\ image = NoImage
    /\ fault = NoFault
    /\ ReportIdle

Next ==
    \/ PlaceRoot
    \/ PlaceLevel1
    \/ PlaceLevel2
    \/ PlaceLevel3
    \/ ReturnLayout
    \/ AddEdge
    \/ AddCategory
    \/ UpdateLayout
    \/ WriteImage

Spec == Init /\ [][Next]_vars

(***************************************************************************)
(* script.py: the report printer.  The mapping is the sequence of its      *)
(* items in insertion order; each entry keeps the fields the loop reads.   *)
(***************************************************************************)
SampleAnalysis == <<
    [name |-> "claude_flow",
     strengths |-> <<"17 specialized SPARC development modes",
                     "Multi-agent orchestration with BatchTool",
                     "Memory sharing and coordination",
                     "Command-based interface with clear workflows",
                     "Swarm mode for parallel execution">>,
     organization |-> "Command-driven with mode specialization"],
    [name |-> "superclaude",
     strengths |-> <<"9 cognitive personas as universal flags",
                     "19 specialized commands covering full dev lifecycle",
                     "Token optimization with @include template system",
                     "Evidence-based methodology",
                     "Modular configuration with shared patterns">>,
     organization |-> "Persona-driven with flag inheritance"],
    [name |-> "best_agents",
     strengths |-> <<"Role-based specialization (CrewAI)",
                     "Task delegation and collaboration",
                     "State management and memory",
                     "Flexible orchestration patterns",
                     "Multi-framework integration">>,
     organization |-> "Hierarchical with delegation"]
>>

GenNames == <<"alpha", "beta", "gamma", "delta">>
GenStrengths == {"s1", "s2"}

\* str.upper() on the keys of the mapping.
Upper(name) ==
    CASE name = "claude_flow" -> "CLAUDE_FLOW"
      [] name = "superclaude" -> "SUPERCLAUDE"
      [] name = "best_agents" -> "BEST_AGENTS"
      [] name = "alpha" -> "ALPHA"
      [] name = "beta" -> "BETA"
      [] name = "gamma" -> "GAMMA"
      [] name = "delta" -> "DELTA"

StrengthLists == UNION {[1..n -> GenStrengths] : n \in 0..MaxStrengths}

GenAnalyses ==
    UNION {{[k \in 1..n |-> [name |-> GenNames[k], strengths |-> ss[k],
                             organization |-> "org"]] :
                ss \in [1..n -> StrengthLists]} : n \in 0..MaxEntries}

ReportInputs == {SampleAnalysis} \cup GenAnalyses

\* The lines one print call writes; a leading "\n" in the argument is a blank line.
HeaderLines(system) == <<[kind |-> "blank", text |-> ""],
                         [kind |-> "header", text |-> Upper(system)]>>
StrengthsLabelLine == [kind |-> "label", text |-> "Strengths:"]
BulletLine(strength) == [kind |-> "bullet", text |-> strength]
OrganizationLine(organization) == [kind |-> "organization", text |-> organization]

\* Faulty variant of StrengthAt: the list walked from its end.
StrengthAtReversed(strengths, k) == strengths[Len(strengths) + 1 - k]

\* The k-th item "for strength in details['strengths']" yields.
StrengthAt(strengths, k) == strengths[k]

\* for system, details in systems_analysis.items(): print(f"\n{system.upper()} ANALYSIS:")
PrintHeader ==
    /\ rpc = "header"
    /\ IF entry > Len(systems_analysis)
       THEN /\ rpc' = "done"
            /\ UNCHANGED out
       ELSE /\ out' = out \o HeaderLines(systems_analysis[entry].name)
            /\ rpc' = "label"
    /\ UNCHANGED <<systems_analysis, entry, sidx>>
    /\ UNCHANGED chartVars

\* print("Strengths:")
PrintStrengthsLabel ==
    /\ rpc = "label"
    /\ out' = Append(out, StrengthsLabelLine)
    /\ rpc' = "strengths"
    /\ sidx' = 1
    /\ UNCHANGED <<systems_analysis, entry>>
    /\ UNCHANGED chartVars

\* for strength in details["strengths"]: print(f"  * {strength}")
PrintStrength ==
    /\ rpc = "strengths"
    /\ LET strengths == systems_analysis[entry].strengths
       IN  IF sidx > Len(strengths)
           THEN /\ rpc' = "organization"
                /\ UNCHANGED <<out, sidx>>
           ELSE /\ out' = Append(out, BulletLine(StrengthAt(strengths, sidx)))
                /\ sidx' = sidx + 1
                /\ UNCHANGED rpc
    /\ UNCHANGED <<systems_analysis, entry>>
    /\ UNCHANGED chartVars

\* print(f"Organization: {details['structure']['organization']}")
PrintOrganization ==
    /\ rpc = "organization"
    /\ out' = Append(out, OrganizationLine(systems_analysis[entry].organization))
    /\ entry' = entry + 1
    /\ rpc' = "header"
    /\ UNCHANGED <<systems_analysis, sidx>>
    /\ UNCHANGED chartVars

ChartIdle ==
    /\ nodes = <<>>
    /\ pc = "idle"
    /\ idx = 0
    /\ positions = NoPositions
    /\ node_positions = NoPositions
    /\ traces = <<>>
    /\ layout = NoLayout
    /\ image = NoImage
    /\ fault = NoFault

InitReport ==
    /\ systems_analysis \in ReportInputs
    /\ rpc = "header"
    /\ entry = 1
    /\ sidx = 0
    /\ out = <<>>
    /\ ChartIdle

NextReport ==
    \/ PrintHeader
    \/ PrintStrengthsLabel
    \/ PrintStrength
    \/ PrintOrganization

SpecReport == InitReport /\ [][NextReport]_vars

(***************************************************************************)
(* Properties of the layout.                                               *)
(***************************************************************************)
Positioned == DOMAIN positions

LayoutReturned == node_positions # NoPositions

LevelOf(id) == NodeById(nodes, id).level

PositionedNodes == {k \in 1..Len(nodes) : nodes[k].id \in Positioned}

\* The nodes of node k's level that name the same parent, in input order.
GroupOf(k) == Siblings(NodesAtLevel(nodes, nodes[k].level), nodes[k].parent)

SpacingOf(level) ==
    IF level = 1 THEN level1_spacing
    ELSE IF level = 2 THEN level2_sibling_spacing
    ELSE level3_sibling_spacing

\* The horizontal offset the layout gives the i-th (0-based) of n nodes at a level.
OffsetAt(level, n, i) ==
    IF level = 1 THEN SpreadOffset(n, i, level1_spacing)
    ELSE SiblingOffset(n, i, SpacingOf(level))

\* C1: in a well-formed node list (levels 0..3, every child one level below
\* its parent) a positioned node of a lower level always lies strictly above
\* (greater y) every positioned node of a higher level, in the dict being
\* built and in the mapping returned.
C1_YStrictlyDecreasesWithLevel ==
    WellFormedTree(nodes) =>
        /\ \A a, b \in Positioned :
              LevelOf(a) < LevelOf(b) => FLess(positions[b][2], positions[a][2])
        /\ \A a, b \in DOMAIN node_positions :
              LevelOf(a) < LevelOf(b) => FLess(node_positions[b][2], node_positions[a][2])

\* C1 witness: a generated well-formed list with nodes at all four levels has
\* been laid out and rendered.
C1_Witness ==
    /\ WellFormedTree(nodes)
    /\ nodes # SampleNodes
    /\ pc = "done"
    /\ \A l \in 0..3 : \E id \in DOMAIN node_positions : LevelOf(id) = l

C3_Original_OffsetsSymmetric ==
    (WellFormedTree(nodes) /\ LayoutReturned) =>
        \A k \in 1..Len(nodes) :
            nodes[k].level \in 1..3 =>
                LET n == Len(GroupOf(k))
                    i == IndexOf(GroupOf(k), nodes[k])
                IN  n > 1 => OffsetAt(nodes[k].level, n, i)
                                = FNeg(OffsetAt(nodes[k].level, n, n - 1 - i))

HasDanglingParent(n) == HasParent(n) /\ n.parent \notin IdsOf(nodes)

\* C4 as stated: with a node of level 1, 2 or 3 whose parent id is not in the
\* node set, the layout never returns a mapping and never gives that node a
\* position.
C4_Original_DanglingParentFailsLayout ==
    \A k \in 1..Len(nodes) :
        (nodes[k].level \in 1..3 /\ HasDanglingParent(nodes[k]))
        => /\ ~LayoutReturned
           /\ nodes[k].id \notin Positioned

(***************************************************************************)
(* Properties of the report printer.                                       *)
(***************************************************************************)
\* The printed lines the report is made of: headers, bullets, organization
\* lines (the blank line before a header and the "Strengths:" label aside).
ReportLines(o) ==
    SelectSeq(o, LAMBDA l : l.kind \in {"header", "bullet", "organization"})

ExpectedBlock(e) ==
    <<[kind |-> "header", text |-> Upper(e.name)]>>
    \o [k \in 1..Len(e.strengths) |-> [kind |-> "bullet", text |-> e.strengths[k]]]
    \o <<[kind |-> "organization", text |-> e.organization]>>

RECURSIVE ExpectedReport(_)
ExpectedReport(sa) ==
    IF sa = <<>> THEN <<>> ELSE ExpectedBlock(Head(sa)) \o ExpectedReport(Tail(sa))

IsPrefix(a, b) == Len(a) <= Len(b) /\ SubSeq(b, 1, Len(a)) = a

\* C5: what has been printed is always a prefix of the blocks of the entries
\* in mapping order, each block being one header, then one bullet per
\* strength in list order, then one organization line; when the script ends
\* every block has been printed in full.
C5_OneBlockPerEntryInOrder ==
    /\ IsPrefix(ReportLines(out), ExpectedReport(systems_analysis))
    /\ rpc = "done" => ReportLines(out) = ExpectedReport(systems_analysis)

\* C5 witness: the script has ended after printing at least two entries, one
\* of which lists two different strengths.
C5_Witness ==
    /\ rpc = "done"
    /\ Len(systems_analysis) >= 2
    /\ \E k \in 1..Len(systems_analysis) :
          /\ Len(systems_analysis[k].strengths) >= 2
          /\ systems_analysis[k].strengths[1] # systems_analysis[k].strengths[2]

(***************************************************************************)
(* Properties of the rendering.                                            *)
(***************************************************************************)
Malformed(ns) ==
    \/ \E k \in 1..Len(ns) :
          \/ (HasParent(ns[k]) /\ ns[k].parent \notin IdsOf(ns))
          \/ ns[k].level \notin 0..3
          \/ ns[k].category \notin DOMAIN colors
    \/ Cardinality({k \in 1..Len(ns) : ns[k].level = 0}) >= 2

\* C6 as stated: with a dangling parent reference, a level outside 0..3, a
\* second level-0 node or a category missing from the color table, the image
\* file is never written.
C6_Original_MalformedInputNeverRendered ==
    Malformed(nodes) => image = NoImage

ParentedNodes == SelectSeq(nodes, HasParent)

\* The categories of the color table that have at least one node, in table order.
PresentKeys == SelectSeq(ColorKeys, LAMBDA c : \E k \in 1..Len(nodes) : nodes[k].category = c)

\* C7 as stated: when the image has been written, the traces are one line
\* per node that has a parent, in input order, joining the positions of the
\* parent and the child (26 for the sample), followed by one marker trace per
\* category that has a node, in color-table order, in which every node
\* appears exactly once, under its own category; and the image holds all of
\* those traces.
C7_Original_LinesThenMarkersThenImage ==
    pc = "done" =>
        LET nl == Len(ParentedNodes)
            markers == SubSeq(traces, nl + 1, Len(traces))
        IN  /\ Len(traces) >= nl
            /\ nodes = SampleNodes => nl = 26
            /\ \A t \in 1..nl :
                  /\ traces[t].mode = "lines"
                  /\ traces[t].x = <<node_positions[ParentedNodes[t].parent][1],
                                     node_positions[ParentedNodes[t].id][1]>>
                  /\ traces[t].y = <<node_positions[ParentedNodes[t].parent][2],
                                     node_positions[ParentedNodes[t].id][2]>>
            /\ \A t \in 1..Len(markers) : markers[t].mode = "markers+text"
            /\ Len(markers) = Cardinality({nodes[k].category : k \in 1..Len(nodes)})
            /\ Len(markers) = Len(PresentKeys)
            /\ \A t \in 1..Len(markers) :
                  LET members == CategoryNodes(nodes, PresentKeys[t])
                  IN  /\ markers[t].color = colors[PresentKeys[t]]
                      /\ markers[t].text = [k \in 1..Len(members) |-> members[k].label]
                      /\ markers[t].x = [k \in 1..Len(members) |-> node_positions[members[k].id][1]]
                      /\ markers[t].y = [k \in 1..Len(members) |-> node_positions[members[k].id][2]]
            /\ image.traces = traces

\* C8 as stated, for node lists with unique ids whose parents all resolve:
\* the mapping the layout returns has exactly the ids of the node list as
\* its domain.
C8_Original_EveryIdPositioned ==
    (UniqueIds(nodes) /\ ParentsResolve(nodes) /\ LayoutReturned)
        => DOMAIN node_positions = IdsOf(nodes)

\* The ids the layout gives a position: the first level-0 node and every node
\* of level 1, 2 or 3.
LaidOutIds ==
    {NodesAtLevel(nodes, 0)[1].id} \cup {nodes[k].id : k \in {j \in 1..Len(nodes) : nodes[j].level \in 1..3}}

\* One step of the layout: every position already written is kept, at most
\* one id is added, and a step of a placement loop adds exactly one.
PositionWrittenOnce ==
    /\ \A id \in DOMAIN positions :
          id \in DOMAIN positions' /\ positions'[id] = positions[id]
    /\ Cardinality(DOMAIN positions') <= Cardinality(DOMAIN positions) + 1
    /\ (pc \in {"level1", "level2", "level3"} /\ idx' = idx + 1)
          => Cardinality(DOMAIN positions') = Cardinality(DOMAIN positions) + 1

\* C8 amended: the mapping the layout returns has as its domain the ids of
\* the first level-0 node and of every node of level 1, 2 or 3 (nodes of
\* other levels and further level-0 nodes get no position); each of these
\* positions is written once and never overwritten, and the returned mapping
\* is never modified by the rendering steps.
C8_PositionsAssignedOnce ==
    /\ [](LayoutReturned => DOMAIN node_positions = LaidOutIds)
    /\ [][PositionWrittenOnce]_vars
    /\ [][LayoutReturned => node_positions' = node_positions]_vars

\* C8 witness: a list of more than four nodes has been laid out and rendered,
\* every id holding a position.
C8_Witness ==
    /\ pc = "done"
    /\ Len(nodes) > 4
    /\ DOMAIN node_positions = IdsOf(nodes)
    /\ \A l \in 0..3 : \E id \in DOMAIN node_positions : LevelOf(id) = l

\* C9: the sample node list is a well-formed tree (unique ids, one parentless
\* level-0 node, every parent an existing id one level above its child) and
\* every category is a key of the color table.
C9_SampleIsWellFormed ==
    nodes = SampleNodes => (WellFormedTree(nodes) /\ CategoriesKnown(nodes))

\* C9 witness: the script has run to its end on the sample node list.
C9_Witness == nodes = SampleNodes /\ pc = "done" /\ Len(nodes) = 27

====
